---- MODULE Spec2Model ----
(***************************************************************************)
(* State-machine model of SwrCache (src/src/SwrCache.ts) and of the        *)
(* promise wrapper it relies on (src/unnamed/part_000).                    *)
(*                                                                         *)
(* Every call of the producer `getValue` creates one promise and one cache *)
(* entry object, so the three heaps `promises`, `entries` and `conts` grow *)
(* together and a producer call, its promise and the entry that wraps the  *)
(* promise share one index.  Entry objects stay in `entries` after they    *)
(* left the Map, because closures (a suspended sweep, a refresh that has   *)
(* to reset `entry.refresh`) still hold them.                              *)
(***************************************************************************)
EXTENDS Integers, Sequences, FiniteSets, TLC

\* ---- bounds of the model -------------------------------------------------
MaxCalls == 3
MaxNow == 1
MaxEpoch == 2
MaxSweeps == 1
MaxSweepCalls == 8
MaxObserverCalls == 3
MaxClearSweepCalls == 5
MaxPrimeCalls == 3

\* ---- inputs --------------------------------------------------------------
Params == {"a", "b"}
Values == {"v1", "v2"}
Errors == {"boom"}
Undefined == "undefined"
TtlMs == 1
EventTypes == {"state:missing", "state:update", "state:reset"}
DestroyedError == "Cache instance has been destroyed and is no longer viable."
ConfigError == "refreshIntervalMs must be greater than ttlMs."
DEFAULT_TTL_MS == 30000
DEFAULT_REFRESH_INTERVAL_MS == 60000

VARIABLES
  cache,      \* #cache: the Map, as a sequence of [key, entry] in insertion order
  entries,    \* heap of CacheEntry objects
  promises,   \* heap of PromiseWithMeta objects
  conts,      \* closure of the continuation registered on each producer promise
  epoch,      \* this.epoch
  aborted,    \* this.#abortController.signal.aborted
  now,        \* performance.now()
  sweeps,     \* suspended #refreshStaleEntries activations: the entries left,
              \* the epoch captured, the refresh awaited (0: none), the last
              \* promise created before the await, the call of the last turn
  listeners,  \* event types that have a registered observer
  emitted,    \* events passed to dispatchEvent by the last step
  delivered,  \* the events of the last step that reached an observer
  ret,        \* what the last call returned, or the promise that settled last
  config,     \* the config given to the constructor, then #config
  constructed \* "no" before the constructor ran, then "yes" or "threw"

vars == <<cache, entries, promises, conts, epoch, aborted, now, sweeps,
          listeners, emitted, delivered, ret, config, constructed>>

\* ---- key derivation ------------------------------------------------------
GetKey(param) == <<"key", param>>

\* ---- Map operations ------------------------------------------------------
CacheHas(c, key) == \E j \in 1..Len(c) : c[j].key = key

CacheGet(c, key) ==
  IF CacheHas(c, key)
  THEN c[CHOOSE j \in 1..Len(c) : c[j].key = key].entry
  ELSE 0

\* Faulty variant: set() that stores nothing.
CacheSetMut(c, key, e) == c

CacheSet(c, key, e) ==
  IF CacheHas(c, key)
  THEN [j \in 1..Len(c) |-> IF c[j].key = key THEN [key |-> key, entry |-> e] ELSE c[j]]
  ELSE Append(c, [key |-> key, entry |-> e])

\* Faulty variant: delete() that empties the Map.
CacheDeleteAllMut(c, key) == <<>>

\* Faulty variant: delete() that removes nothing.
CacheDeleteMut(c, key) == c

CacheDelete(c, key) == SelectSeq(c, LAMBDA x : x.key # key)

\* ---- events --------------------------------------------------------------
MissingEvent(key, param) ==
  [name |-> "state:missing", type |-> "missing", key |-> key, param |-> param,
   value |-> Undefined, error |-> Undefined]

UpdateEvent(type, key, param, value, error) ==
  [name |-> "state:update", type |-> type, key |-> key, param |-> param,
   value |-> value, error |-> error]

ResetEvent ==
  [name |-> "state:reset", type |-> "reset", key |-> Undefined, param |-> Undefined,
   value |-> Undefined, error |-> Undefined]

PrimeEvent(param) ==
  [name |-> "state:prime", type |-> "prime", key |-> Undefined, param |-> param,
   value |-> Undefined, error |-> Undefined]

\* ---- the mutable heap threaded through one synchronous run ---------------
\* `out` are the events dispatched so far and `seen` the Map as the listeners
\* of each of them find it when dispatchEvent calls them.
Machine ==
  [cache |-> cache, entries |-> entries, promises |-> promises, conts |-> conts,
   out |-> <<>>, seen |-> <<>>]

\* Faulty variant: dispatchEvent that drops the event.
DispatchEventMut(m, ev) == m

DispatchEvent(m, ev) == [m EXCEPT !.out = Append(@, ev), !.seen = Append(@, m.cache)]

AttachPromiseMeta == [status |-> "pending", value |-> Undefined, reason |-> Undefined]

IsFulfilled(m, e) == m.promises[m.entries[e].promise].status = "fulfilled"

HasValue(m, e) ==
  /\ m.promises[m.entries[e].promise].status = "fulfilled"
  /\ m.promises[m.entries[e].promise].value # Undefined

IsExpired(m, e) == m.entries[e].expiry <= now

\* Faulty variant: the completion gate without the epoch comparison.
IsLiveMut(currentEpoch) == ~aborted

IsLive(currentEpoch) == epoch = currentEpoch /\ ~aborted

\* ---- #createRefresh, up to its await -------------------------------------
CreateRefresh(m, key, e, currentEpoch) ==
  LET n == Len(m.promises) + 1 IN
  [m EXCEPT
     !.promises = Append(@, AttachPromiseMeta),
     !.conts = Append(@, [kind |-> "refresh", key |-> key, param |-> m.entries[e].param,
                          currentEpoch |-> currentEpoch, entry |-> e,
                          startEpoch |-> epoch]),
     !.entries = Append(@, [param |-> m.entries[e].param, promise |-> n,
                            refresh |-> 0, expiry |-> now + TtlMs]),
     !.cache = CacheSet(@, key, n)]

\* ---- #refreshEntry: returns the refresh under way, or starts one ---------
RefreshEntry(m, key, e, currentEpoch) ==
  IF m.entries[e].refresh # 0
  THEN [m |-> m, refresh |-> m.entries[e].refresh]
  ELSE LET m1 == CreateRefresh(m, key, e, currentEpoch) IN
       [m |-> [m1 EXCEPT !.entries[e].refresh = Len(m1.promises)],
        refresh |-> 0]

\* ---- #getEntry -----------------------------------------------------------
GetEntry(m, param) ==
  LET key == GetKey(param)
      e == CacheGet(m.cache, key)
      n == Len(m.promises) + 1
  IN IF e = 0
     THEN [m |-> [DispatchEvent(m, MissingEvent(key, param)) EXCEPT
                    !.promises = Append(@, AttachPromiseMeta),
                    !.conts = Append(@, [kind |-> "fetch", key |-> key, param |-> param,
                                         currentEpoch |-> epoch, entry |-> 0,
                                         startEpoch |-> epoch]),
                    !.entries = Append(@, [param |-> param, promise |-> n,
                                           refresh |-> 0, expiry |-> now + TtlMs]),
                    !.cache = CacheSet(@, key, n)],
           key |-> key, entry |-> n]
     ELSE [m |-> m, key |-> key, entry |-> e]

\* ---- getAsync ------------------------------------------------------------
\* Faulty variant: getAsync without the destroyed check.
GetAsyncMut(m, param) ==
  LET g == GetEntry(m, param)
      e == g.entry
      p == g.m.promises[g.m.entries[e].promise]
  IN IF HasValue(g.m, e) /\ IsExpired(g.m, e)
     THEN [m |-> RefreshEntry(
                   DispatchEvent(g.m, UpdateEvent("stale", g.key, g.m.entries[e].param,
                                                  p.value, Undefined)),
                   g.key, e, epoch).m,
           promise |-> g.m.entries[e].promise, error |-> Undefined]
     ELSE [m |-> g.m, promise |-> g.m.entries[e].promise, error |-> Undefined]

\* `promise` is the entry's promise, or 0 with `error` set when getAsync hands
\* back a fresh rejected promise.
GetAsync(m, param) ==
  IF aborted
  THEN [m |-> m, promise |-> 0, error |-> DestroyedError]
  ELSE LET g == GetEntry(m, param)
           e == g.entry
           p == g.m.promises[g.m.entries[e].promise]
       IN IF HasValue(g.m, e) /\ IsExpired(g.m, e)
          THEN [m |-> RefreshEntry(
                        DispatchEvent(g.m, UpdateEvent("stale", g.key,
                                                       g.m.entries[e].param,
                                                       p.value, Undefined)),
                        g.key, e, epoch).m,
                promise |-> g.m.entries[e].promise, error |-> Undefined]
          ELSE [m |-> g.m, promise |-> g.m.entries[e].promise, error |-> Undefined]

\* ---- what a public call hands back ---------------------------------------
Returned(kind, value, promise) == [kind |-> kind, value |-> value, promise |-> promise]

NoCall == Returned("none", Undefined, 0)

Void == Returned("void", Undefined, 0)

Deliver(out) == SelectSeq(out, LAMBDA ev : ev.name \in listeners)

Commit(m) ==
  /\ cache' = m.cache
  /\ entries' = m.entries
  /\ promises' = m.promises
  /\ conts' = m.conts
  /\ emitted' = m.out
  /\ delivered' = Deliver(m.out)

\* ---- the config options ----------------------------------------------------
\* An option of the config object: left out, passed as undefined, or a number.
Absent == [kind |-> "absent", value |-> 0]

PassedUndefined == [kind |-> "undefined", value |-> 0]

Number(n) == [kind |-> "number", value |-> n]

\* { option: default, ...config }
Spread(default, given) == IF given.kind = "absent" THEN Number(default) ELSE given

\* x <= y of two options: false when either is undefined.
LessOrEqual(x, y) == x.kind = "number" /\ y.kind = "number" /\ x.value <= y.value

\* ---- the constructor: options validated, fields initialised --------------
ConfigNumbers == {0, 1, 29999, 30000, 30001, 59999, 60000, 60001}

ConfigOptions == {Absent, PassedUndefined} \cup {Number(n) : n \in ConfigNumbers}

ConstructorInit ==
  /\ config \in [ttlMs : ConfigOptions, refreshIntervalMs : ConfigOptions]
  /\ constructed = "no"
  /\ cache = <<>>
  /\ entries = <<>>
  /\ promises = <<>>
  /\ conts = <<>>
  /\ epoch = 0
  /\ aborted = FALSE
  /\ now = 0
  /\ sweeps = <<>>
  /\ listeners = {}
  /\ emitted = <<>>
  /\ delivered = <<>>
  /\ ret = NoCall

Effective(c) ==
  [ttlMs |-> Spread(DEFAULT_TTL_MS, c.ttlMs),
   refreshIntervalMs |-> Spread(DEFAULT_REFRESH_INTERVAL_MS, c.refreshIntervalMs)]

Constructor ==
  /\ constructed = "no"
  /\ config' = Effective(config)
  /\ IF LessOrEqual(config'.refreshIntervalMs, config'.ttlMs)
     THEN /\ constructed' = "threw"
          /\ ret' = Returned("threw", ConfigError, 0)
     ELSE /\ constructed' = "yes"
          /\ ret' = Void
  /\ UNCHANGED <<cache, entries, promises, conts, epoch, aborted, now, sweeps,
                 listeners, emitted, delivered>>

ConstructorNext == Constructor

ConstructorSpec == ConstructorInit /\ [][ConstructorNext]_vars

Init ==
  /\ config = [ttlMs |-> Number(TtlMs), refreshIntervalMs |-> Number(TtlMs + 1)]
  /\ constructed = "yes"
  /\ cache = <<>>
  /\ entries = <<>>
  /\ promises = <<>>
  /\ conts = <<>>
  /\ epoch = 0
  /\ aborted = FALSE
  /\ now = 0
  /\ sweeps = <<>>
  /\ listeners = {}
  /\ emitted = <<>>
  /\ delivered = <<>>
  /\ ret = NoCall

\* ---- read ----------------------------------------------------------------
\* A promise that getAsync rejected has no status field, so read returns it.
Read(param) ==
  /\ LET r == GetAsync(Machine, param) IN
     /\ Commit(r.m)
     /\ ret' = IF r.promise = 0
               THEN Returned("rejected", r.error, 0)
               ELSE LET p == r.m.promises[r.promise] IN
                    IF p.status = "fulfilled" /\ p.value # Undefined
                    THEN Returned("value", p.value, 0)
                    ELSE Returned("promise", Undefined, r.promise)
  /\ UNCHANGED <<config, constructed, epoch, aborted, now, sweeps, listeners>>

\* ---- prime ---------------------------------------------------------------
\* prime returns nothing; value and promise of `ret` describe the promise of
\* getAsync that it drops.
Prime(param) ==
  /\ LET r == GetAsync(Machine, param) IN
     /\ Commit(r.m)
     /\ ret' = Returned("void", r.error, r.promise)
  /\ UNCHANGED <<config, constructed, epoch, aborted, now, sweeps, listeners>>

\* ---- peek ----------------------------------------------------------------
\* Faulty variant: peek that goes through read.
PeekMut(param) == Read(param)

Peek(param) ==
  LET e == CacheGet(cache, GetKey(param)) IN
  /\ IF e = 0
     THEN /\ Commit(Machine)
          /\ ret' = Returned("undefined", Undefined, 0)
     ELSE IF HasValue(Machine, e)
          THEN /\ IF IsExpired(Machine, e)
                  THEN Commit(GetAsync(Machine, param).m)
                  ELSE Commit(Machine)
               /\ ret' = Returned("value",
                                  promises[entries[e].promise].value, 0)
          ELSE /\ Commit(Machine)
               /\ ret' = Returned("undefined", Undefined, 0)
  /\ UNCHANGED <<config, constructed, epoch, aborted, now, sweeps, listeners>>

\* ---- a state:prime event carrying {param} is dispatched on the cache ------
\* The listener the constructor registered; destroy() removes it through the
\* abort signal.
PrimeListener(m, param) ==
  LET g == GetEntry(m, param)
      e == g.entry
      m1 == IF HasValue(g.m, e)
            THEN DispatchEvent(g.m, UpdateEvent("resolved", g.key, g.m.entries[e].param,
                                                g.m.promises[g.m.entries[e].promise].value,
                                                Undefined))
            ELSE g.m
  IN RefreshEntry(m1, g.key, e, epoch).m

StatePrime(param) ==
  /\ IF aborted
     THEN Commit(DispatchEvent(Machine, PrimeEvent(param)))
     ELSE Commit(PrimeListener(DispatchEvent(Machine, PrimeEvent(param)), param))
  /\ ret' = Returned("dispatched", Undefined, 0)
  /\ UNCHANGED <<config, constructed, epoch, aborted, now, sweeps, listeners>>

\* ---- clear ---------------------------------------------------------------
\* Faulty variant: clear() that leaves the store as it is.
ClearMut ==
  /\ epoch < MaxEpoch
  /\ epoch' = epoch + 1
  /\ Commit(DispatchEvent(Machine, ResetEvent))
  /\ ret' = Void
  /\ UNCHANGED <<config, constructed, aborted, now, sweeps, listeners>>

Clear ==
  /\ epoch < MaxEpoch
  /\ epoch' = epoch + 1
  /\ Commit(DispatchEvent([Machine EXCEPT !.cache = <<>>], ResetEvent))
  /\ ret' = Void
  /\ UNCHANGED <<config, constructed, aborted, now, sweeps, listeners>>

\* ---- destroy -------------------------------------------------------------
Destroy ==
  /\ epoch < MaxEpoch
  /\ epoch' = epoch + 1
  /\ aborted' = TRUE
  /\ listeners' = {}
  /\ cache' = <<>>
  /\ emitted' = <<>>
  /\ delivered' = <<>>
  /\ ret' = Void
  /\ UNCHANGED <<config, constructed, entries, promises, conts, now, sweeps>>

\* ---- addEventListener / removeEventListener ------------------------------
\* Faulty variant: registration that ignores the aborted signal.
AddEventListenerMut(type) ==
  /\ listeners' = listeners \cup {type}
  /\ emitted' = <<>>
  /\ delivered' = <<>>
  /\ ret' = Void
  /\ UNCHANGED <<config, constructed, cache, entries, promises, conts, epoch, aborted, now, sweeps>>

AddEventListener(type) ==
  /\ listeners' = IF aborted THEN listeners ELSE listeners \cup {type}
  /\ emitted' = <<>>
  /\ delivered' = <<>>
  /\ ret' = Void
  /\ UNCHANGED <<config, constructed, cache, entries, promises, conts, epoch, aborted, now, sweeps>>

RemoveEventListener(type) ==
  /\ listeners' = listeners \ {type}
  /\ emitted' = <<>>
  /\ delivered' = <<>>
  /\ ret' = Void
  /\ UNCHANGED <<config, constructed, cache, entries, promises, conts, epoch, aborted, now, sweeps>>

\* ---- the clock -----------------------------------------------------------
Tick ==
  /\ now < MaxNow
  /\ now' = now + 1
  /\ emitted' = <<>>
  /\ delivered' = <<>>
  /\ ret' = NoCall
  /\ UNCHANGED <<config, constructed, cache, entries, promises, conts, epoch, aborted, sweeps, listeners>>

\* ---- a producer promise settles ------------------------------------------
\* attachPromiseMeta's reaction: the first one registered on the promise.
SettlePromise(m, i, ok, v) ==
  [m EXCEPT !.promises[i] =
     IF ok THEN [status |-> "fulfilled", value |-> v, reason |-> Undefined]
     ELSE [status |-> "rejected", value |-> Undefined, reason |-> v]]

\* The reaction #getEntry registered, and the rest of #createRefresh's try/catch.
Continuation(m, i, ok, v) ==
  LET c == m.conts[i] IN
  IF ~IsLive(c.currentEpoch)
  THEN m
  ELSE IF ok
       THEN DispatchEvent(m, UpdateEvent("resolved", c.key, c.param, v, Undefined))
       ELSE DispatchEvent([m EXCEPT !.cache = CacheDelete(@, c.key)],
                          UpdateEvent("rejected", c.key, c.param, Undefined, v))

\* #createRefresh's finally.
Finally(m, i) ==
  IF m.conts[i].kind = "refresh"
  THEN [m EXCEPT !.entries[m.conts[i].entry].refresh = 0]
  ELSE m

\* A reaction of a promise created after a sweep's continuation was queued runs
\* after that continuation.
MayRun(i) ==
  \A j \in 1..Len(sweeps) : sweeps[j].awaiting # 0 \/ i <= sweeps[j].barrier

Complete(i, ok, v) ==
  /\ i \in 1..Len(promises)
  /\ promises[i].status = "pending"
  /\ MayRun(i)
  /\ Commit(Finally(Continuation(SettlePromise(Machine, i, ok, v), i, ok, v), i))
  /\ sweeps' = [j \in 1..Len(sweeps) |->
                  IF sweeps[j].awaiting = i
                  THEN [sweeps[j] EXCEPT !.awaiting = 0, !.barrier = Len(promises)]
                  ELSE sweeps[j]]
  /\ ret' = Returned("settled", Undefined, i)
  /\ UNCHANGED <<config, constructed, epoch, aborted, now, listeners>>

\* ---- #refreshStaleEntries ------------------------------------------------
StaleEntries ==
  SelectSeq(cache, LAMBDA x : IsExpired(Machine, x.entry) /\ IsFulfilled(Machine, x.entry))

\* One turn of the for loop: #refreshEntry, then the await of what it returned.
SweepStep(m, stale, currentEpoch) ==
  LET r == RefreshEntry(m, Head(stale).key, Head(stale).entry, currentEpoch) IN
  [m |-> r.m,
   sweep |-> [stale |-> Tail(stale), currentEpoch |-> currentEpoch,
              awaiting |-> r.refresh, barrier |-> Len(r.m.promises),
              started |-> IF Len(r.m.promises) > Len(m.promises)
                          THEN Len(r.m.promises) ELSE 0]]

\* The periodic callback of defaultRefreshStrategy calls refresh().
RefreshStaleEntries ==
  /\ ~aborted
  /\ Len(sweeps) < MaxSweeps
  /\ IF Len(cache) = 0 \/ StaleEntries = <<>>
     THEN /\ Commit(Machine)
          /\ sweeps' = sweeps
     ELSE LET s == SweepStep(Machine, StaleEntries, epoch) IN
          /\ Commit(s.m)
          /\ sweeps' = Append(sweeps, s.sweep)
  /\ ret' = NoCall
  /\ UNCHANGED <<config, constructed, epoch, aborted, now, listeners>>

RemoveAt(s, j) == [x \in 1..(Len(s) - 1) |-> IF x < j THEN s[x] ELSE s[x + 1]]

\* The sweep continues after its await.
SweepResume(j) ==
  /\ j \in 1..Len(sweeps)
  /\ sweeps[j].awaiting = 0
  /\ IF sweeps[j].stale = <<>>
     THEN /\ Commit(Machine)
          /\ sweeps' = RemoveAt(sweeps, j)
     ELSE LET s == SweepStep(Machine, sweeps[j].stale, sweeps[j].currentEpoch) IN
          /\ Commit(s.m)
          /\ sweeps' = [sweeps EXCEPT ![j] = s.sweep]
  /\ ret' = NoCall
  /\ UNCHANGED <<config, constructed, epoch, aborted, now, listeners>>

\* ---- the cache and its callers: no observer registers ---------------------
Next ==
  \/ \E p \in Params : Read(p) /\ Len(promises') <= MaxCalls
  \/ \E p \in Params : Prime(p) /\ Len(promises') <= MaxCalls
  \/ \E p \in Params : Peek(p) /\ Len(promises') <= MaxCalls
  \/ Clear
  \/ Destroy
  \/ Tick
  \/ \E i \in 1..Len(promises), v \in Values \cup {Undefined} : Complete(i, TRUE, v)
  \/ \E i \in 1..Len(promises), v \in Errors : Complete(i, FALSE, v)
  \/ RefreshStaleEntries /\ Len(promises') <= MaxCalls
  \/ \E j \in 1..Len(sweeps) : SweepResume(j) /\ Len(promises') <= MaxCalls

Spec == Init /\ [][Next]_vars

\* ---- three keys, reads and sweeps only: no clear, no destroy --------------
\* The callers read three keys, the clock passes the ttl when all three are
\* cached, and the producer fails on refreshes only.
SweepParams == {"a", "b", "c"}

SweepNext ==
  \/ \E p \in SweepParams : Read(p) /\ Len(promises') <= MaxSweepCalls
  \/ Tick /\ Len(cache) = Cardinality(SweepParams)
          /\ \A i \in 1..Len(promises) : promises[i].status = "fulfilled"
  \/ \E i \in 1..Len(promises) : Complete(i, TRUE, "v1")
  \/ \E i \in 1..Len(promises) : Complete(i, FALSE, "boom") /\ conts[i].kind = "refresh"
  \/ RefreshStaleEntries /\ Len(promises') <= MaxSweepCalls
  \/ \E j \in 1..Len(sweeps) : SweepResume(j) /\ Len(promises') <= MaxSweepCalls

SweepSpec == Init /\ [][SweepNext]_vars

\* ---- two keys, reads, sweeps, clear and destroy ----------------------------
\* The clock passes the ttl when both keys are cached, and the producer fails on
\* refreshes only.
ClearSweepNext ==
  \/ \E p \in Params : Read(p) /\ Len(promises') <= MaxClearSweepCalls
  \/ Clear
  \/ Destroy
  \/ Tick /\ Len(cache) = Cardinality(Params)
          /\ \A i \in 1..Len(promises) : promises[i].status = "fulfilled"
  \/ \E i \in 1..Len(promises) : Complete(i, TRUE, "v1")
  \/ \E i \in 1..Len(promises) : Complete(i, FALSE, "boom") /\ conts[i].kind = "refresh"
  \/ RefreshStaleEntries /\ Len(promises') <= MaxClearSweepCalls
  \/ \E j \in 1..Len(sweeps) : SweepResume(j) /\ Len(promises') <= MaxClearSweepCalls

ClearSweepSpec == Init /\ [][ClearSweepNext]_vars

\* ---- the cache and callers that dispatch state:prime: no sweep -------------
PrimeNext ==
  \/ \E p \in Params : Read(p) /\ Len(promises') <= MaxPrimeCalls
  \/ \E p \in Params : StatePrime(p) /\ Len(promises') <= MaxPrimeCalls
  \/ Clear
  \/ Destroy
  \/ Tick
  \/ \E i \in 1..Len(promises) : Complete(i, TRUE, "v1")
  \/ \E i \in 1..Len(promises) : Complete(i, FALSE, "boom")

PrimeSpec == Init /\ [][PrimeNext]_vars

\* ---- the cache with observers --------------------------------------------
ObserverNext ==
  \/ \E p \in Params : Read(p) /\ Len(promises') <= MaxObserverCalls
  \/ Clear
  \/ Destroy
  \/ \E t \in EventTypes : AddEventListener(t)
  \/ \E t \in EventTypes : RemoveEventListener(t)
  \/ Tick
  \/ \E i \in 1..Len(promises) : Complete(i, TRUE, "v1")
  \/ \E i \in 1..Len(promises) : Complete(i, FALSE, "boom")
  \/ RefreshStaleEntries /\ Len(promises') <= MaxObserverCalls
  \/ \E j \in 1..Len(sweeps) : SweepResume(j) /\ Len(promises') <= MaxObserverCalls

ObserverSpec == Init /\ [][ObserverNext]_vars

\* ---- vocabulary of the claims ---------------------------------------------
AllParams == Params \cup SweepParams

Calls == 1..Len(promises)

IsPending(i) == promises[i].status = "pending"

InFlight(key) == {i \in Calls : conts[i].key = key /\ IsPending(i)}

Seen(key) == \E i \in Calls : conts[i].key = key

FirstCall(key) ==
  CHOOSE i \in Calls : conts[i].key = key /\ \A j \in Calls : conts[j].key = key => i <= j

Entry(param) == CacheGet(cache, GetKey(param))

Started == Len(promises') = Len(promises) + 1

NoneStarted == Len(promises') = Len(promises)

Resolution(e) == promises[entries[e].promise]

FirstRead(p) ==
  /\ Started
  /\ ret' = Returned("promise", Undefined, Len(promises'))
  /\ promises'[Len(promises')].status = "pending"
  /\ conts'[Len(promises')].key = GetKey(p)
  /\ CacheGet(cache', GetKey(p)) = Len(promises')

\* C1, as stated: on a live cache, read of a key with no entry calls the
\* producer and returns the pending handle; read of a key whose entry is
\* fulfilled and unexpired returns the resolved value and calls no producer.
C1_ReadFulfilledReturnsValue ==
  [][\A p \in Params : (~aborted /\ Read(p)) =>
       /\ Entry(p) = 0 => FirstRead(p)
       /\ (/\ Entry(p) # 0
           /\ Resolution(Entry(p)).status = "fulfilled"
           /\ entries[Entry(p)].expiry > now)
          => /\ ret' = Returned("value", Resolution(Entry(p)).value, 0)
             /\ NoneStarted]_vars

\* C1 for producers that never resolve to undefined: the same, for an entry
\* fulfilled with a value other than undefined.
C1_ReadDefinedReturnsValue ==
  [][\A p \in Params : (~aborted /\ Read(p)) =>
       /\ Entry(p) = 0 => FirstRead(p)
       /\ (/\ Entry(p) # 0
           /\ Resolution(Entry(p)).status = "fulfilled"
           /\ Resolution(Entry(p)).value # Undefined
           /\ entries[Entry(p)].expiry > now)
          => /\ ret' = Returned("value", Resolution(Entry(p)).value, 0)
             /\ NoneStarted]_vars

Access(p) == Read(p) \/ Prime(p) \/ Peek(p)

StaleEvent(p, e) ==
  UpdateEvent("stale", GetKey(p), entries[e].param, Resolution(e).value, Undefined)

RefreshStarted(p, e) ==
  /\ emitted' = <<StaleEvent(p, e)>>
  /\ Started
  /\ conts'[Len(promises')].kind = "refresh"
  /\ conts'[Len(promises')].key = GetKey(p)
  /\ conts'[Len(promises')].entry = e
  /\ CacheGet(cache', GetKey(p)) = Len(promises')

RefreshPending(e) == e # 0 /\ conts[e].kind = "refresh" /\ IsPending(entries[e].promise)

\* C3, as stated: on a live cache, a read, peek or prime of a key whose entry is
\* fulfilled and has reached its expiry emits stale with the held value and
\* starts one refresh; an access to a key whose refresh is pending starts none.
C3_StaleAccessRefreshesOnce ==
  [][\A p \in Params : (~aborted /\ Access(p)) =>
       /\ (/\ Entry(p) # 0
           /\ Resolution(Entry(p)).status = "fulfilled"
           /\ entries[Entry(p)].expiry <= now)
          => RefreshStarted(p, Entry(p))
       /\ RefreshPending(Entry(p)) => NoneStarted]_vars

\* C3 for producers that never resolve to undefined: the same, for an entry
\* fulfilled with a value other than undefined.
C3_StaleDefinedAccessRefreshesOnce ==
  [][\A p \in Params : (~aborted /\ Access(p)) =>
       /\ (/\ Entry(p) # 0
           /\ Resolution(Entry(p)).status = "fulfilled"
           /\ Resolution(Entry(p)).value # Undefined
           /\ entries[Entry(p)].expiry <= now)
          => RefreshStarted(p, Entry(p))
       /\ RefreshPending(Entry(p)) => NoneStarted]_vars

\* C5: while the refresh of a key is pending in the store of a live cache, read
\* and peek of that key return the value the refreshed entry held.
C5_ReadServesLastResolutionDuringRefresh ==
  [][\A p \in Params :
       (/\ ~aborted
        /\ RefreshPending(Entry(p))
        /\ conts[Entry(p)].startEpoch = epoch
        /\ Resolution(conts[Entry(p)].entry).value # Undefined
        /\ (Read(p) \/ Peek(p)))
       => ret' = Returned("value", Resolution(conts[Entry(p)].entry).value, 0)]_vars

SettledNow(i) == IsPending(i) /\ promises'[i].status # "pending"

C7_CompletionAfterClearIsInert ==
  [][\A i \in Calls :
       (SettledNow(i) /\ conts[i].startEpoch < epoch) =>
         /\ emitted' = <<>>
         /\ cache' = cache
         /\ \A j \in 1..Len(cache) :
              /\ entries'[cache[j].entry] = entries[cache[j].entry]
              /\ promises'[entries[cache[j].entry].promise]
                   = promises[entries[cache[j].entry].promise]]_vars

\* A call started before a clear() has just settled while the store holds a
\* newer entry for its key.
C7_Witness ==
  /\ ret.kind = "settled"
  /\ ~aborted
  /\ conts[ret.promise].startEpoch < epoch
  /\ CacheHas(cache, conts[ret.promise].key)
  /\ CacheGet(cache, conts[ret.promise].key) > ret.promise
  /\ emitted = <<>>

C9_DestroyIsTerminal ==
  [][aborted =>
       /\ aborted'
       /\ \A p \in Params :
            /\ Read(p) => /\ ret' = Returned("rejected", DestroyedError, 0)
                          /\ promises' = promises
                          /\ cache' = cache
            /\ Prime(p) => /\ ret' = Returned("void", DestroyedError, 0)
                           /\ promises' = promises
                           /\ cache' = cache]_vars

\* A read has failed on a cache that was destroyed and then cleared.
C9_Witness ==
  /\ aborted
  /\ epoch = 2
  /\ ret = Returned("rejected", DestroyedError, 0)

\* C10: after destroy() no observer is registered and no event reaches one.
C10_NothingDeliveredAfterDestroy ==
  aborted => (delivered = <<>> /\ listeners = {})

\* clear() has dispatched reset on a destroyed cache that has calls in flight.
C10_Witness ==
  /\ aborted
  /\ emitted = <<ResetEvent>>
  /\ delivered = <<>>
  /\ \E i \in Calls : IsPending(i)

\* C4: with no clear and no destroy, at most one producer call is in flight per
\* key in every reachable state.
C4_OneCallInFlightPerKey ==
  (epoch = 0 /\ ~aborted) =>
    \A p \in AllParams : Cardinality(InFlight(GetKey(p))) <= 1

\* C11: on a live cache every handle that read returns is the promise of a first
\* fetch, never the promise of a refresh: a refresh's failure rejects the
\* refresh's promise only, so no handle of a caller rejects with its error.
C11_ReadNeverHandsOutRefresh ==
  [][\A p \in Params :
       (~aborted /\ Read(p) /\ ret'.kind = "promise")
       => conts'[ret'.promise].kind = "fetch"]_vars

SweepTurn == RefreshStaleEntries \/ \E j \in 1..Len(sweeps) : SweepResume(j)

\* C13: a sweep starts the producer call for its next stale entry only when the
\* call it started in its previous turn has settled.
C13_SweepRefreshesSequentially ==
  [][\A j \in 1..Len(sweeps) :
       (SweepResume(j) /\ Started /\ sweeps[j].started # 0)
       => ~IsPending(sweeps[j].started)]_vars

\* C12: when a refresh fails while the epoch is what it was when the refresh
\* started and the cache is live, exactly the rejected event of its key, param
\* and error is emitted and the key has no entry; when it succeeds under the
\* same conditions, exactly the resolved event with the new value is emitted.
C12_RefreshOutcomeGatedByStartEpoch ==
  [][\A i \in Calls :
       (/\ SettledNow(i)
        /\ conts[i].kind = "refresh"
        /\ conts[i].startEpoch = epoch
        /\ ~aborted)
       => IF promises'[i].status = "rejected"
          THEN /\ emitted' = <<UpdateEvent("rejected", conts[i].key, conts[i].param,
                                           Undefined, promises'[i].reason)>>
               /\ ~CacheHas(cache', conts[i].key)
          ELSE emitted' = <<UpdateEvent("resolved", conts[i].key, conts[i].param,
                                        promises'[i].value, Undefined)>>]_vars

\* C12 for refreshes that captured the epoch of their start: the same, with
\* the captured epoch in place of the epoch at the start of the refresh.
C12_RefreshOutcomeGatedByCapturedEpoch ==
  [][\A i \in Calls :
       (/\ SettledNow(i)
        /\ conts[i].kind = "refresh"
        /\ conts[i].currentEpoch = epoch
        /\ ~aborted)
       => IF promises'[i].status = "rejected"
          THEN /\ emitted' = <<UpdateEvent("rejected", conts[i].key, conts[i].param,
                                           Undefined, promises'[i].reason)>>
               /\ ~CacheHas(cache', conts[i].key)
          ELSE emitted' = <<UpdateEvent("resolved", conts[i].key, conts[i].param,
                                        promises'[i].value, Undefined)>>]_vars

\* C18: a turn of a sweep that began before a clear() or destroy() calls no
\* producer and leaves the store as it is, and the store of a destroyed cache
\* is empty.
C18_SupersededSweepIsInert ==
  [][/\ \A j \in 1..Len(sweeps) :
          (SweepResume(j) /\ (sweeps[j].currentEpoch < epoch \/ aborted))
          => (NoneStarted /\ cache' = cache)
     /\ aborted' => cache' = <<>>]_vars

Keys == {GetKey(p) : p \in AllParams}

Removed(k) == CacheHas(cache, k) /\ ~CacheHas(cache', k)

\* C16, as stated: a key that has resolved since the last clear() leaves the
\* store only by clear() or destroy().
C16_ResolvedKeyLeavesOnlyByClear ==
  [][\A k \in Keys :
       (/\ Removed(k)
        /\ \E i \in Calls : /\ conts[i].key = k
                             /\ conts[i].startEpoch = epoch
                             /\ promises[i].status = "fulfilled")
       => epoch' # epoch]_vars

\* C16, amended: a key leaves the store only by clear() or destroy(), or when
\* a producer call for it, first fetch or refresh, fails on a live cache whose
\* epoch is the one the call captured.
C16_KeyLeavesOnlyByClearOrFailure ==
  [][\A k \in Keys :
       Removed(k)
       => \/ epoch' # epoch
          \/ \E i \in Calls : /\ conts[i].key = k
                               /\ IsPending(i)
                               /\ promises'[i].status = "rejected"
                               /\ conts[i].currentEpoch = epoch
                               /\ ~aborted]_vars

\* The refresh of a key that had resolved has just failed and the key has left
\* the store while another key stays.
C16_Witness ==
  /\ ret.kind = "settled"
  /\ conts[ret.promise].kind = "refresh"
  /\ promises[ret.promise].status = "rejected"
  /\ promises[conts[ret.promise].entry].status = "fulfilled"
  /\ ~CacheHas(cache, conts[ret.promise].key)
  /\ Len(cache) = 1

\* C19: a sweep calls the producer for a key only when the store's entry of
\* that key is fulfilled and has reached its expiry, and a sweep that finds the
\* store empty does nothing.
C19_SweepRefreshesOnlyStaleStoreEntries ==
  [][/\ (SweepTurn /\ Started)
        => LET e == CacheGet(cache, conts'[Len(promises')].key) IN
           /\ e # 0
           /\ promises[entries[e].promise].status = "fulfilled"
           /\ entries[e].expiry <= now
     /\ (RefreshStaleEntries /\ Len(cache) = 0)
        => (NoneStarted /\ cache' = cache /\ sweeps' = sweeps)]_vars

GivenOrDefault(option, default) ==
  IF option.kind = "number" THEN option.value ELSE default

\* C17, as stated: the constructor throws the configuration error exactly when
\* refreshIntervalMs, given or 60000, is at most ttlMs, given or 30000, and
\* otherwise yields a cache with epoch 0 and an empty store.
C17_ConstructorValidatesInterval ==
  [][Constructor =>
       IF GivenOrDefault(config.refreshIntervalMs, DEFAULT_REFRESH_INTERVAL_MS)
            <= GivenOrDefault(config.ttlMs, DEFAULT_TTL_MS)
       THEN constructed' = "threw" /\ ret' = Returned("threw", ConfigError, 0)
       ELSE constructed' = "yes" /\ epoch' = 0 /\ cache' = <<>>]_vars

\* C17 for options that are left out or given a number: the same, with no
\* option passed as undefined.
C17_ConstructorValidatesGivenNumbers ==
  [][(/\ Constructor
      /\ config.ttlMs.kind # "undefined"
      /\ config.refreshIntervalMs.kind # "undefined") =>
       IF GivenOrDefault(config.refreshIntervalMs, DEFAULT_REFRESH_INTERVAL_MS)
            <= GivenOrDefault(config.ttlMs, DEFAULT_TTL_MS)
       THEN constructed' = "threw" /\ ret' = Returned("threw", ConfigError, 0)
       ELSE constructed' = "yes" /\ epoch' = 0 /\ cache' = <<>>]_vars

\* C20: when a read of a key with no entry dispatches missing to an observer,
\* the Map the observer finds already holds the entry of that key, so that a
\* read of the key from inside the observer finds it and calls no producer.
C20_EntryStoredBeforeMissing ==
  [][\A p \in Params :
       (/\ ~aborted
        /\ "state:missing" \in listeners
        /\ Entry(p) = 0
        /\ Read(p))
       => LET m == GetAsync(Machine, p).m IN
          /\ delivered' = <<MissingEvent(GetKey(p), p)>>
          /\ \A k \in 1..Len(m.out) :
               m.out[k].name = "state:missing" => CacheHas(m.seen[k], GetKey(p))]_vars

AtRest == sweeps = <<>> /\ \A i \in Calls : ~IsPending(i)

\* C21: on a cache that was not destroyed, once every producer call has settled
\* and every sweep has run to its end, no entry of the store has a rejected
\* promise, so that no read is handed an already rejected promise.
C21_NoRejectedEntryAtRest ==
  (~aborted /\ AtRest) =>
    \A j \in 1..Len(cache) : Resolution(cache[j].entry).status # "rejected"

\* C21 for caches that were never cleared: the same, while the epoch is 0.
C21_NoRejectedEntryAtRestNoClear ==
  (~aborted /\ epoch = 0 /\ AtRest) =>
    \A j \in 1..Len(cache) : Resolution(cache[j].entry).status # "rejected"

\* C22: on a live cache, a state:prime event carrying {param} starts at most
\* one producer call, for the key of param, and none while a fetch or refresh
\* of that key is pending.
C22_StatePrimeIsSingleFlight ==
  [][\A p \in Params : (~aborted /\ StatePrime(p)) =>
       /\ Len(promises') <= Len(promises) + 1
       /\ InFlight(GetKey(p)) # {} => NoneStarted]_vars

\* C22 as the listener behaves: on a live cache a state:prime event starts one
\* refresh of the key's entry whatever is pending, and a first fetch as well
\* when the key has no entry.
C22_StatePrimeAlwaysRefreshes ==
  [][\A p \in Params : (~aborted /\ StatePrime(p)) =>
       /\ Len(promises') = Len(promises) + (IF Entry(p) = 0 THEN 2 ELSE 1)
       /\ conts'[Len(promises')].kind = "refresh"
       /\ conts'[Len(promises')].key = GetKey(p)
       /\ CacheGet(cache', GetKey(p)) = Len(promises')]_vars
====
